---- MODULE Spec2Model ----
(***************************************************************************)
(* select-k: k::Select, k::Top and k::Bottom of include/select_k/select_k.h *)
(* A selector keeps at most k_ scored candidates in a std::priority_queue  *)
(* whose top is the worst retained entry.                                  *)
(***************************************************************************)
EXTENDS Integers, Sequences, FiniteSets

\* ------------------------------------------------------------------ bounds
MaxK == 3
MaxOffers == 4
MaxInput == 4

\* ------------------------------------------------------- candidates, scores
\* The candidates are points, as in testPoints of the sample program.
ValidPoints == {<<1, 1>>, <<1, 2>>, <<2, 1>>, <<2, 2>>}

\* A candidate on which the caller's scoring function fails (throws).
BadPoint == <<0, 0>>

Candidates == ValidPoints \cup {BadPoint}

Policies == {"Top", "Bottom"}

\* sqEuclidian of the sample: the score of a point.
sqEuclidian(p) == p[1] * p[1] + p[2] * p[2]

\* The call scorer_(candidate) either returns a score or throws.
scorerThrows(c) == c = BadPoint

scorer_(c) == sqEuclidian(c)

Min(a, b) == IF a < b THEN a ELSE b

\* ------------------------------------------------------------ the heap
\* The comparators as they would be if Top used std::less and Bottom std::greater.
CompareSwapped(p, s1, s2) == IF p = "Top" THEN s1 < s2 ELSE s1 > s2

\* std::greater<ScoreType> for Top, std::less<ScoreType> for Bottom.
Compare(p, s1, s2) == IF p = "Top" THEN s1 > s2 ELSE s1 < s2

\* ScoredCompare::operator(): compares the scores of two scored candidates.
ScoredCompare(p, c1, c2) == Compare(p, c1.second, c2.second)

\* The container is a 0-based vector; At reads element i of it.
At(h, i) == h[i + 1]

Put(h, i, v) == [h EXCEPT ![i + 1] = v]

\* std::__push_heap: move the hole up while its parent compares before value.
RECURSIVE PushHeapLoop(_, _, _, _, _)
PushHeapLoop(p, h, holeIndex, topIndex, value) ==
    LET parent == (holeIndex - 1) \div 2 IN
    IF holeIndex > topIndex /\ ScoredCompare(p, At(h, parent), value)
    THEN PushHeapLoop(p, Put(h, holeIndex, At(h, parent)), parent, topIndex, value)
    ELSE Put(h, holeIndex, value)

\* priority_queue::push: c.push_back(x); std::push_heap(c.begin(), c.end(), comp).
HeapPush(p, h, x) ==
    LET c == Append(h, x) IN PushHeapLoop(p, c, Len(c) - 1, 0, x)

\* std::__adjust_heap, first loop: move the hole down to the child that does
\* not compare before its sibling.
RECURSIVE AdjustDown(_, _, _, _, _)
AdjustDown(p, h, holeIndex, secondChild, len) ==
    IF secondChild < (len - 1) \div 2
    THEN LET sc == 2 * (secondChild + 1)
             pick == IF ScoredCompare(p, At(h, sc), At(h, sc - 1)) THEN sc - 1 ELSE sc
         IN  AdjustDown(p, Put(h, holeIndex, At(h, pick)), pick, pick, len)
    ELSE [heap |-> h, holeIndex |-> holeIndex, secondChild |-> secondChild]

\* std::__adjust_heap: the first loop, the lone left child of an even length,
\* then std::__push_heap of the value from the hole.
AdjustHeap(p, h, holeIndex, len, value) ==
    LET d == AdjustDown(p, h, holeIndex, holeIndex, len)
        e == IF len % 2 = 0 /\ d.secondChild = (len - 2) \div 2
             THEN LET sc == 2 * (d.secondChild + 1)
                  IN  [heap |-> Put(d.heap, d.holeIndex, At(d.heap, sc - 1)),
                       holeIndex |-> sc - 1]
             ELSE [heap |-> d.heap, holeIndex |-> d.holeIndex]
    IN  PushHeapLoop(p, e.heap, e.holeIndex, holeIndex, value)

\* pop as it would be with c.pop_back() alone, without std::pop_heap.
HeapPopBack(p, h) == SubSeq(h, 1, Len(h) - 1)

\* priority_queue::pop: std::pop_heap(c.begin(), c.end(), comp); c.pop_back().
HeapPop(p, h) ==
    LET n == Len(h) IN
    IF n > 1
    THEN LET value == At(h, n - 1)
             moved == Put(h, n - 1, At(h, 0))
         IN  SubSeq(AdjustHeap(p, moved, 0, n - 1, value), 1, n - 1)
    ELSE SubSeq(h, 1, n - 1)

\* priority_queue::top: c.front().
HeapTop(h) == At(h, 0)

\* ------------------------------------------------------------ Select::offer
\* offer as it would be if a full selector never evicted its worst entry.
OfferStepNeverEvicts(p, k, h, candidate) ==
    IF k = 0
    THEN [heap |-> h, ret |-> FALSE, threw |-> FALSE, calls |-> 0]
    ELSE IF scorerThrows(candidate)
    THEN [heap |-> h, ret |-> FALSE, threw |-> TRUE, calls |-> 1]
    ELSE LET scored == [first |-> candidate, second |-> scorer_(candidate)] IN
         IF Len(h) < k
         THEN [heap |-> HeapPush(p, h, scored), ret |-> TRUE, threw |-> FALSE, calls |-> 1]
         ELSE [heap |-> h, ret |-> FALSE, threw |-> FALSE, calls |-> 1]

\* offer as it would be if a score equal to the worst retained one were accepted.
OfferStepAcceptsTies(p, k, h, candidate) ==
    IF k = 0
    THEN [heap |-> h, ret |-> FALSE, threw |-> FALSE, calls |-> 0]
    ELSE IF scorerThrows(candidate)
    THEN [heap |-> h, ret |-> FALSE, threw |-> TRUE, calls |-> 1]
    ELSE LET scored == [first |-> candidate, second |-> scorer_(candidate)] IN
         IF Len(h) < k
         THEN [heap |-> HeapPush(p, h, scored), ret |-> TRUE, threw |-> FALSE, calls |-> 1]
         ELSE IF ~ScoredCompare(p, HeapTop(h), scored)
         THEN [heap |-> HeapPush(p, HeapPop(p, h), scored), ret |-> TRUE,
               threw |-> FALSE, calls |-> 1]
         ELSE [heap |-> h, ret |-> FALSE, threw |-> FALSE, calls |-> 1]

\* offer as it would be if the size test were selected_.size() <= k_.
OfferStepOverfill(p, k, h, candidate) ==
    IF k = 0
    THEN [heap |-> h, ret |-> FALSE, threw |-> FALSE, calls |-> 0]
    ELSE IF scorerThrows(candidate)
    THEN [heap |-> h, ret |-> FALSE, threw |-> TRUE, calls |-> 1]
    ELSE LET scored == [first |-> candidate, second |-> scorer_(candidate)] IN
         IF Len(h) <= k
         THEN [heap |-> HeapPush(p, h, scored), ret |-> TRUE, threw |-> FALSE, calls |-> 1]
         ELSE IF ScoredCompare(p, scored, HeapTop(h))
         THEN [heap |-> HeapPush(p, HeapPop(p, h), scored), ret |-> TRUE,
               threw |-> FALSE, calls |-> 1]
         ELSE [heap |-> h, ret |-> FALSE, threw |-> FALSE, calls |-> 1]

\* offer as it would be if the k_ == 0 guard returned true.
OfferStepZeroAccepts(p, k, h, candidate) ==
    IF k = 0
    THEN [heap |-> h, ret |-> TRUE, threw |-> FALSE, calls |-> 0]
    ELSE IF scorerThrows(candidate)
    THEN [heap |-> h, ret |-> FALSE, threw |-> TRUE, calls |-> 1]
    ELSE LET scored == [first |-> candidate, second |-> scorer_(candidate)] IN
         IF Len(h) < k
         THEN [heap |-> HeapPush(p, h, scored), ret |-> TRUE, threw |-> FALSE, calls |-> 1]
         ELSE IF ScoredCompare(p, scored, HeapTop(h))
         THEN [heap |-> HeapPush(p, HeapPop(p, h), scored), ret |-> TRUE,
               threw |-> FALSE, calls |-> 1]
         ELSE [heap |-> h, ret |-> FALSE, threw |-> FALSE, calls |-> 1]

\* offer as it would be if a full selector popped its worst entry before
\* the score is computed.
OfferStepPopsBeforeScoring(p, k, h, candidate) ==
    IF k = 0
    THEN [heap |-> h, ret |-> FALSE, threw |-> FALSE, calls |-> 0]
    ELSE IF scorerThrows(candidate)
    THEN [heap |-> IF Len(h) < k THEN h ELSE HeapPop(p, h),
          ret |-> FALSE, threw |-> TRUE, calls |-> 1]
    ELSE LET scored == [first |-> candidate, second |-> scorer_(candidate)] IN
         IF Len(h) < k
         THEN [heap |-> HeapPush(p, h, scored), ret |-> TRUE, threw |-> FALSE, calls |-> 1]
         ELSE IF ScoredCompare(p, scored, HeapTop(h))
         THEN [heap |-> HeapPush(p, HeapPop(p, h), scored), ret |-> TRUE,
               threw |-> FALSE, calls |-> 1]
         ELSE [heap |-> h, ret |-> FALSE, threw |-> FALSE, calls |-> 1]

\* offer as it would be if a full selector popped its worst entry before
\* comparing, and so also when it rejects.
OfferStepPopsOnReject(p, k, h, candidate) ==
    IF k = 0
    THEN [heap |-> h, ret |-> FALSE, threw |-> FALSE, calls |-> 0]
    ELSE IF scorerThrows(candidate)
    THEN [heap |-> h, ret |-> FALSE, threw |-> TRUE, calls |-> 1]
    ELSE LET scored == [first |-> candidate, second |-> scorer_(candidate)] IN
         IF Len(h) < k
         THEN [heap |-> HeapPush(p, h, scored), ret |-> TRUE, threw |-> FALSE, calls |-> 1]
         ELSE IF ScoredCompare(p, scored, HeapTop(h))
         THEN [heap |-> HeapPush(p, HeapPop(p, h), scored), ret |-> TRUE,
               threw |-> FALSE, calls |-> 1]
         ELSE [heap |-> HeapPop(p, h), ret |-> FALSE, threw |-> FALSE, calls |-> 1]

\* offer as it would be if a full selector replaced its worst entry without
\* comparing.
OfferStepAlwaysEvicts(p, k, h, candidate) ==
    IF k = 0
    THEN [heap |-> h, ret |-> FALSE, threw |-> FALSE, calls |-> 0]
    ELSE IF scorerThrows(candidate)
    THEN [heap |-> h, ret |-> FALSE, threw |-> TRUE, calls |-> 1]
    ELSE LET scored == [first |-> candidate, second |-> scorer_(candidate)] IN
         IF Len(h) < k
         THEN [heap |-> HeapPush(p, h, scored), ret |-> TRUE, threw |-> FALSE, calls |-> 1]
         ELSE [heap |-> HeapPush(p, HeapPop(p, h), scored), ret |-> TRUE,
               threw |-> FALSE, calls |-> 1]

\* offer as it would be if the score were computed before the k_ == 0 guard.
OfferStepScoresFirst(p, k, h, candidate) ==
    IF scorerThrows(candidate)
    THEN [heap |-> h, ret |-> FALSE, threw |-> TRUE, calls |-> 1]
    ELSE IF k = 0
    THEN [heap |-> h, ret |-> FALSE, threw |-> FALSE, calls |-> 1]
    ELSE LET scored == [first |-> candidate, second |-> scorer_(candidate)] IN
         IF Len(h) < k
         THEN [heap |-> HeapPush(p, h, scored), ret |-> TRUE, threw |-> FALSE, calls |-> 1]
         ELSE IF ScoredCompare(p, scored, HeapTop(h))
         THEN [heap |-> HeapPush(p, HeapPop(p, h), scored), ret |-> TRUE,
               threw |-> FALSE, calls |-> 1]
         ELSE [heap |-> h, ret |-> FALSE, threw |-> FALSE, calls |-> 1]

\* The outcome of offer(candidate) on a selector of capacity k holding heap h:
\* the heap afterwards, the value returned, whether the scorer threw, and
\* how many times the scorer was called.
OfferStep(p, k, h, candidate) ==
    IF k = 0
    THEN [heap |-> h, ret |-> FALSE, threw |-> FALSE, calls |-> 0]
    ELSE IF scorerThrows(candidate)
    THEN [heap |-> h, ret |-> FALSE, threw |-> TRUE, calls |-> 1]
    ELSE LET scored == [first |-> candidate, second |-> scorer_(candidate)] IN
         IF Len(h) < k
         THEN [heap |-> HeapPush(p, h, scored), ret |-> TRUE, threw |-> FALSE, calls |-> 1]
         ELSE IF ScoredCompare(p, scored, HeapTop(h))
         THEN [heap |-> HeapPush(p, HeapPop(p, h), scored), ret |-> TRUE,
               threw |-> FALSE, calls |-> 1]
         ELSE [heap |-> h, ret |-> FALSE, threw |-> FALSE, calls |-> 1]

\* ---------------------------------------------------------- Select::results
\* extract as it would be if its loop stopped with one entry left in the heap.
RECURSIVE extractStopsEarly(_, _)
extractStopsEarly(p, heap) ==
    IF Len(heap) <= 1
    THEN [out |-> <<>>, count |-> 0, heap |-> heap]
    ELSE LET rest == extractStopsEarly(p, HeapPop(p, heap))
         IN  [out |-> <<HeapTop(heap).first>> \o rest.out,
              count |-> rest.count + 1,
              heap |-> rest.heap]

\* Select::extract: pop the heap until it is empty, writing each top.
RECURSIVE extract(_, _)
extract(p, heap) ==
    IF Len(heap) = 0
    THEN [out |-> <<>>, count |-> 0, heap |-> heap]
    ELSE LET rest == extract(p, HeapPop(p, heap))
         IN  [out |-> <<HeapTop(heap).first>> \o rest.out,
              count |-> rest.count + 1,
              heap |-> rest.heap]

Reverse(s) == [i \in 1..Len(s) |-> s[Len(s) + 1 - i]]

\* extractSorted as it would be if it wrote the candidates in pop order.
extractSortedNoReverse(p, heap) ==
    LET popped == extract(p, heap)
        s == popped.out
    IN  [out |-> s, count |-> Len(s), heap |-> popped.heap]

\* Select::extractSorted: pop the heap onto a stack, then pop the stack.
extractSorted(p, heap) ==
    LET popped == extract(p, heap)
        s == popped.out
    IN  [out |-> Reverse(s), count |-> Len(s), heap |-> popped.heap]

\* results as it would be if it always extracted from selected_ itself.
ResultsStepAlwaysDrains(p, h, sorted, preserveSelection) ==
    LET r == IF sorted THEN extractSorted(p, h) ELSE extract(p, h) IN
    [out |-> r.out, count |-> r.count, heap |-> r.heap]

\* results as it would be if it always extracted from a copy.
ResultsStepNeverDrains(p, h, sorted, preserveSelection) ==
    LET r == IF sorted THEN extractSorted(p, h) ELSE extract(p, h) IN
    [out |-> r.out, count |-> r.count, heap |-> h]

\* results as it would be if both branches called extractSorted.
ResultsStepAlwaysSorted(p, h, sorted, preserveSelection) ==
    LET r == extractSorted(p, h) IN
    [out |-> r.out, count |-> r.count,
     heap |-> IF preserveSelection THEN r.heap ELSE h]

\* Select::results: preserveSelection extracts from selected_ itself,
\* otherwise from a copy of it.
ResultsStep(p, h, sorted, preserveSelection) ==
    LET r == IF sorted THEN extractSorted(p, h) ELSE extract(p, h) IN
    [out |-> r.out, count |-> r.count,
     heap |-> IF preserveSelection THEN r.heap ELSE h]

\* ------------------------------------------------------ Top/Bottom::compute
RECURSIVE ComputeLoop(_, _, _, _)
ComputeLoop(p, k, h, input) ==
    IF input = <<>>
    THEN [heap |-> h, threw |-> FALSE]
    ELSE LET o == OfferStep(p, k, h, Head(input)) IN
         IF o.threw
         THEN [heap |-> o.heap, threw |-> TRUE]
         ELSE ComputeLoop(p, k, o.heap, Tail(input))

\* The end of compute: return selector.results(out, true, false), unless an
\* offer threw, in which case nothing is written.
ComputeReturn(r) ==
    [state |-> "returned", threw |-> FALSE, out |-> r.out, count |-> r.count]

ComputeFinish(p, l) ==
    IF l.threw
    THEN [state |-> "threw", threw |-> TRUE, out |-> <<>>, count |-> 0]
    ELSE ComputeReturn(ResultsStep(p, l.heap, TRUE, FALSE))

\* compute as it would be if it called results(out, false, false).
ComputeUnsorted(p, k, input) ==
    LET l == ComputeLoop(p, k, <<>>, input) IN
    IF l.threw
    THEN [state |-> "threw", threw |-> TRUE, out |-> <<>>, count |-> 0]
    ELSE ComputeReturn(ResultsStep(p, l.heap, FALSE, FALSE))

\* compute: a fresh selector, offer each element in order, results(out, true, false).
Compute(p, k, input) == ComputeFinish(p, ComputeLoop(p, k, <<>>, input))

\* ------------------------------------------------------------------ state
VARIABLES
    policy,        \* which facade: "Top" (std::greater) or "Bottom" (std::less)
    k_,            \* Select::k_
    selected_,     \* Select::selected_, the heap's container
    last,          \* the last call made on the selector and what it returned
    offered,       \* the candidates of every offer call made, in order
    drainedAt,     \* Len(offered) at the last results call with preserveSelection
    accepted,      \* the number of offers that returned true
    acceptedAtDrain, \* accepted at the last results call with preserveSelection
    scorerCalls,   \* the number of calls of scorer_
    rejected,      \* the scores a full selector rejected since the last results
                   \* call with preserveSelection, in order
    shadow_,       \* selected_ of a selector that got the same calls except
                   \* the results calls without preserveSelection
    cIn,           \* the input sequence of a compute call
    cRes           \* the compute call's outcome

vars == <<policy, k_, selected_, last, offered, drainedAt, accepted,
          acceptedAtDrain, scorerCalls, rejected, shadow_, cIn, cRes>>

NoCall == [kind |-> "none", candidate |-> BadPoint, sorted |-> FALSE,
           preserveSelection |-> FALSE, ret |-> FALSE, threw |-> FALSE,
           out |-> <<>>, count |-> 0]

NoCompute == [state |-> "ready", threw |-> FALSE, out |-> <<>>, count |-> 0]

\* Select(k, scorer): an empty heap.
InitSelector ==
    /\ policy \in Policies
    /\ k_ \in 0..MaxK
    /\ selected_ = <<>>
    /\ last = NoCall
    /\ offered = <<>>
    /\ drainedAt = 0
    /\ accepted = 0
    /\ acceptedAtDrain = 0
    /\ scorerCalls = 0
    /\ rejected = <<>>
    /\ shadow_ = <<>>
    /\ cRes = NoCompute

Init ==
    /\ InitSelector
    /\ cIn = <<>>

\* Top::offer / Bottom::offer -> Select::offer
Offer(c) ==
    /\ Len(offered) < MaxOffers
    /\ LET o == OfferStep(policy, k_, selected_, c)
           sh == OfferStep(policy, k_, shadow_, c)
       IN  /\ selected_' = o.heap
           /\ shadow_' = sh.heap
           /\ last' = [NoCall EXCEPT !.kind = "offer", !.candidate = c,
                                     !.ret = o.ret, !.threw = o.threw]
           /\ accepted' = IF o.ret THEN accepted + 1 ELSE accepted
           /\ scorerCalls' = scorerCalls + o.calls
           /\ rejected' = IF o.calls = 1 /\ ~o.threw /\ ~o.ret
                          THEN Append(rejected, scorer_(c))
                          ELSE rejected
    /\ offered' = Append(offered, c)
    /\ UNCHANGED <<policy, k_, drainedAt, acceptedAtDrain, cIn, cRes>>

\* Top::results / Bottom::results -> Select::results
Results(sorted, preserveSelection) ==
    /\ LET r == ResultsStep(policy, selected_, sorted, preserveSelection) IN
           /\ selected_' = r.heap
           /\ last' = [NoCall EXCEPT !.kind = "results", !.sorted = sorted,
                                     !.preserveSelection = preserveSelection,
                                     !.out = r.out, !.count = r.count]
    /\ shadow_' = IF preserveSelection
                  THEN ResultsStep(policy, shadow_, sorted, TRUE).heap
                  ELSE shadow_
    /\ drainedAt' = IF preserveSelection THEN Len(offered) ELSE drainedAt
    /\ acceptedAtDrain' = IF preserveSelection THEN accepted ELSE acceptedAtDrain
    /\ rejected' = IF preserveSelection THEN <<>> ELSE rejected
    /\ UNCHANGED <<policy, k_, offered, accepted, scorerCalls, cIn, cRes>>

Next ==
    \/ \E c \in Candidates : Offer(c)
    \/ \E sorted \in BOOLEAN, preserveSelection \in BOOLEAN :
           Results(sorted, preserveSelection)

Spec == Init /\ [][Next]_vars

\* ---------------------------------------------- the one-shot compute helper
RECURSIVE SeqsUpTo(_, _)
SeqsUpTo(S, n) ==
    IF n = 0 THEN {<<>>}
    ELSE LET shorter == SeqsUpTo(S, n - 1) IN
         shorter \cup {Append(s, x) : s \in shorter, x \in S}

InitCompute ==
    /\ InitSelector
    /\ cIn \in SeqsUpTo(Candidates, MaxInput)

\* Top::compute / Bottom::compute
ComputeCall ==
    /\ cRes.state = "ready"
    /\ cRes' = Compute(policy, k_, cIn)
    /\ UNCHANGED <<policy, k_, selected_, last, offered, drainedAt, accepted,
                   acceptedAtDrain, scorerCalls, rejected, shadow_, cIn>>

NextCompute == ComputeCall

SpecCompute == InitCompute /\ [][NextCompute]_vars

\* ------------------------------------------------- what the claims speak of
\* The scores of a sequence of candidates.
Scores(cands) == [i \in 1..Len(cands) |-> scorer_(cands[i])]

\* Score a is at least as good as score b under the policy.
AtLeastAsGood(p, a, b) == IF p = "Top" THEN a >= b ELSE a <= b

\* Score a is strictly better than score b under the policy.
StrictlyBetter(p, a, b) == IF p = "Top" THEN a > b ELSE a < b

RECURSIVE InsertBest(_, _, _)
InsertBest(p, x, s) ==
    IF s = <<>> THEN <<x>>
    ELSE IF AtLeastAsGood(p, x, Head(s)) THEN <<x>> \o s
    ELSE <<Head(s)>> \o InsertBest(p, x, Tail(s))

\* The scores of s, best first.
RECURSIVE SortBest(_, _)
SortBest(p, s) ==
    IF s = <<>> THEN <<>> ELSE InsertBest(p, Head(s), SortBest(p, Tail(s)))

\* The n best scores of s, best first.
BestScores(p, n, s) == SubSeq(SortBest(p, s), 1, n)

Occurrences(s, x) == Cardinality({i \in 1..Len(s) : s[i] = x})

\* Every element of a occurs in b at least as often as in a.
SubMultiset(a, b) ==
    \A i \in 1..Len(a) : Occurrences(a, a[i]) <= Occurrences(b, a[i])

\* The scores are written best first.
BestFirst(p, s) ==
    \A i \in 1..(Len(s) - 1) : AtLeastAsGood(p, s[i], s[i + 1])

\* The scores retained in the heap, in container order.
RetainedScores(h) == [i \in 1..Len(h) |-> h[i].second]

\* ------------------------------------------------------------------- C1
\* C1: compute emits exactly min(K, N) candidates of the input, and their
\* scores are, as a multiset, the min(K, N) best scores of the input
\* (largest for Top, smallest for Bottom).
C1_ComputeSelectsBest ==
    cRes.state = "returned" =>
        LET n == Min(k_, Len(cIn)) IN
        /\ Len(cRes.out) = n
        /\ cRes.count = n
        /\ SubMultiset(cRes.out, cIn)
        /\ SortBest(policy, Scores(cRes.out)) = BestScores(policy, n, Scores(cIn))

\* compute returned for an input longer than K >= 2 that holds a tied score.
C1_Witness ==
    /\ cRes.state = "returned"
    /\ k_ >= 2
    /\ Len(cIn) > k_
    /\ Len(cRes.out) = k_
    /\ \E i, j \in 1..Len(cIn) : i # j /\ scorer_(cIn[i]) = scorer_(cIn[j])

\* ------------------------------------------------------------------- C2
\* C2: results with sorted = true writes the candidates best to worst
\* (scores non-increasing for Top, non-decreasing for Bottom), whether or
\* not the call drains the selector.
C2_SortedBestFirst ==
    (last.kind = "results" /\ last.sorted) => BestFirst(policy, Scores(last.out))

\* A draining sorted extraction wrote three candidates of different scores.
C2_Witness ==
    /\ last.kind = "results"
    /\ last.sorted
    /\ last.preserveSelection
    /\ Len(last.out) = 3
    /\ scorer_(last.out[1]) # scorer_(last.out[3])

\* ------------------------------------------------------------------- C3
\* The worst of the scores s under the policy: the minimum for Top, the
\* maximum for Bottom.
WorstScore(p, s) ==
    CHOOSE w \in {s[i] : i \in 1..Len(s)} :
        \A i \in 1..Len(s) : AtLeastAsGood(p, s[i], w)

\* C3: for K > 0 an offer that computes a score returns true exactly when
\* fewer than K entries are retained, or K are retained and the score is
\* strictly better than the worst retained score; a score equal to the
\* worst one of a full selector is rejected.
C3_OfferAcceptsIffBetter ==
    [][(Len(offered') = Len(offered) + 1 /\ k_ > 0 /\ ~last'.threw) =>
         (last'.ret <=>
            \/ Len(selected_) < k_
            \/ /\ Len(selected_) = k_
               /\ StrictlyBetter(policy, scorer_(last'.candidate),
                                 WorstScore(policy, RetainedScores(selected_))))]_vars

\* A full selector rejected an offer whose score equals its worst score.
C3_Witness ==
    /\ last.kind = "offer"
    /\ ~last.ret
    /\ ~last.threw
    /\ k_ >= 2
    /\ Len(selected_) = k_
    /\ scorer_(last.candidate) = WorstScore(policy, RetainedScores(selected_))

\* ------------------------------------------------------------------- C4
\* The offers of offs that returned: an offer on which the scorer throws
\* does not return (with k = 0 the scorer is not called).
ReturnedOffers(k, offs) == SelectSeq(offs, LAMBDA c : k = 0 \/ ~scorerThrows(c))

\* C4: on a selector that was never drained after an offer, the number of
\* retained entries is at most K and equals min(K, number of offers made).
C4_RetainedCount ==
    drainedAt = 0 =>
        /\ Len(selected_) <= k_
        /\ Len(selected_) = Min(k_, Len(ReturnedOffers(k_, offered)))

\* More offers than K >= 2 were made on a fresh selector, the last accepted.
C4_Witness ==
    /\ drainedAt = 0
    /\ k_ >= 2
    /\ Len(ReturnedOffers(k_, offered)) > k_
    /\ last.kind = "offer"
    /\ last.ret
    /\ Len(selected_) = k_

\* ------------------------------------------------------------------- C5
\* No offer made so far threw.
NoOfferThrew == k_ = 0 \/ \A i \in 1..Len(offered) : ~scorerThrows(offered[i])

\* C5: offering the elements of X one by one to a fresh selector and then
\* calling results(sorted = true, third argument false) writes the same
\* sequence and returns the same count as compute(K, X, scorer).
C5_StreamEqualsCompute ==
    (/\ last.kind = "results"
     /\ last.sorted
     /\ ~last.preserveSelection
     /\ drainedAt = 0
     /\ NoOfferThrew) =>
        /\ Compute(policy, k_, offered).state = "returned"
        /\ last.out = Compute(policy, k_, offered).out
        /\ last.count = Compute(policy, k_, offered).count

\* Sorted results were read after more offers than K >= 2, with a tie.
C5_Witness ==
    /\ last.kind = "results"
    /\ last.sorted
    /\ ~last.preserveSelection
    /\ drainedAt = 0
    /\ NoOfferThrew
    /\ k_ >= 2
    /\ Len(offered) > k_
    /\ Len(last.out) = k_
    /\ \E i, j \in 1..Len(offered) :
           i # j /\ offered[i] # offered[j] /\ scorer_(offered[i]) = scorer_(offered[j])

\* ------------------------------------------------------------------- C6
\* C6: a results call whose third argument is false leaves the retained set
\* unchanged; two such calls in a row with the same sorted flag write the
\* same sequence and return the same count; and the selector always equals
\* one that never got those calls, so later offers return and do the same.
C6_NonDestructiveKeepsSelection ==
    [][/\ selected_' = shadow_'
       /\ (Len(offered') = Len(offered) + 1) =>
              last'.ret = OfferStep(policy, k_, shadow_, last'.candidate).ret
       /\ (last'.kind = "results" /\ ~last'.preserveSelection /\ offered' = offered) =>
              /\ selected_' = selected_
              /\ Len(last'.out) = Len(selected_)
              /\ (last.kind = "results" /\ ~last.preserveSelection
                    /\ last.sorted = last'.sorted) =>
                     (last'.out = last.out /\ last'.count = last.count)]_vars

\* A non-draining results call wrote two or more candidates, all still retained.
C6_Witness ==
    /\ last.kind = "results"
    /\ ~last.preserveSelection
    /\ Len(last.out) >= 2
    /\ Len(selected_) = Len(last.out)
    /\ Len(offered) > k_

\* ------------------------------------------------------------------- C7
\* C7: a results call that directly follows a results call whose third
\* argument (preserveSelection) is true writes nothing and returns 0.
C7_EmptyAfterDrain ==
    [][(/\ last.kind = "results"
        /\ last.preserveSelection
        /\ last'.kind = "results"
        /\ offered' = offered) =>
           (last'.out = <<>> /\ last'.count = 0 /\ selected_' = <<>>)]_vars

\* Two or more offers were accepted, the selector was then drained, and a
\* results call made since, with no offer in between, wrote nothing.
C7_Witness ==
    /\ last.kind = "results"
    /\ ~last.preserveSelection
    /\ last.out = <<>>
    /\ last.count = 0
    /\ k_ >= 2
    /\ drainedAt = Len(offered)
    /\ acceptedAtDrain >= 2

\* ------------------------------------------------------------------- C8
\* C8: with K = 0 every offer returns false (and does not throw), nothing is
\* ever retained, and every results call writes nothing and returns 0.
C8_ZeroCapacity ==
    k_ = 0 =>
        /\ selected_ = <<>>
        /\ accepted = 0
        /\ last.kind = "offer" => (~last.ret /\ ~last.threw)
        /\ last.kind = "results" => (last.out = <<>> /\ last.count = 0)

\* A K = 0 selector was offered candidates, then asked for its results.
C8_Witness ==
    /\ k_ = 0
    /\ Len(offered) >= 2
    /\ \E i \in 1..Len(offered) : offered[i] \in ValidPoints
    /\ last.kind = "results"

\* ------------------------------------------------------------------- C9
\* C9: when the scorer fails during an offer, the failure reaches the
\* caller (of offer, and of compute over the same candidates) and the
\* retained set is what it was before the offer.
C9_FailedOfferHasNoEffect ==
    [][(Len(offered') = Len(offered) + 1 /\ k_ > 0 /\ scorerThrows(last'.candidate)) =>
          /\ last'.threw
          /\ ~last'.ret
          /\ selected_' = selected_
          /\ accepted' = accepted
          /\ Compute(policy, k_, offered').state = "threw"]_vars

\* The scorer threw during an offer to a full selector of two or more entries.
C9_Witness ==
    /\ last.kind = "offer"
    /\ last.threw
    /\ k_ >= 2
    /\ Len(selected_) = k_

\* ------------------------------------------------------------------- C10
\* C10 as stated: a results call writes as many candidates as it returns,
\* and that count is min(K, number of offers accepted so far).
C10_CountOfAllAccepted ==
    last.kind = "results" =>
        /\ Len(last.out) = last.count
        /\ last.count = Min(k_, accepted)

\* C10 amended: a results call writes as many candidates as it returns, and
\* that count is min(K, number of offers accepted since the last results
\* call with preserveSelection = true before it, or since construction).
C10_CountSinceDrain ==
    [][(last'.kind = "results" /\ offered' = offered) =>
          /\ Len(last'.out) = last'.count
          /\ last'.count = Min(k_, accepted - acceptedAtDrain)]_vars

\* After a drain, fewer offers than min(K, all accepted) were accepted
\* again and a results call returned exactly their number.
C10_Witness ==
    /\ last.kind = "results"
    /\ ~last.preserveSelection
    /\ acceptedAtDrain > 0
    /\ accepted > acceptedAtDrain
    /\ last.count = accepted - acceptedAtDrain
    /\ last.count < Min(k_, accepted)

\* ------------------------------------------------------------------- C11
\* C11 as stated: no results call, whatever its sorted flag and its third
\* argument, changes the retained set.
C11_ResultsNeverMutate ==
    [][(last'.kind = "results" /\ offered' = offered) => selected_' = selected_]_vars

\* C11 amended: the retained set changes only in an offer, or in a results
\* call whose third argument (preserveSelection) is true, which empties it;
\* a results call whose third argument is false never changes it.
C11_OnlyOfferAndDrainMutate ==
    [][/\ (selected_' # selected_) =>
              \/ (last'.kind = "offer" /\ Len(offered') = Len(offered) + 1)
              \/ (last'.kind = "results" /\ last'.preserveSelection /\ selected_' = <<>>)
       /\ (last'.kind = "results" /\ ~last'.preserveSelection /\ offered' = offered) =>
              selected_' = selected_
       /\ (last'.kind = "results" /\ last'.preserveSelection /\ offered' = offered) =>
              selected_' = <<>>]_vars

\* An unsorted results call with the third argument true wrote two or more
\* candidates and left the selector empty.
C11_Witness ==
    /\ last.kind = "results"
    /\ last.preserveSelection
    /\ ~last.sorted
    /\ Len(last.out) >= 2
    /\ selected_ = <<>>

\* ------------------------------------------------------------------- C12
\* C12: an offer that returns false (or throws) leaves every retained
\* candidate and score as it was; an offer changes the retained set only
\* when it returns true.
C12_RejectedOfferKeepsSelection ==
    [][(Len(offered') = Len(offered) + 1) =>
          /\ ~last'.ret => (selected_' = selected_ /\ accepted' = accepted)
          /\ (selected_' # selected_) => last'.ret]_vars

\* A full selector rejected an offer whose score is strictly worse than its
\* worst retained score.
C12_Witness ==
    /\ last.kind = "offer"
    /\ ~last.ret
    /\ ~last.threw
    /\ k_ >= 2
    /\ Len(selected_) = k_
    /\ StrictlyBetter(policy, WorstScore(policy, RetainedScores(selected_)),
                      scorer_(last.candidate))

\* ------------------------------------------------------------------- C13
\* The offers made since the last results call with preserveSelection = true
\* (all offers if there was none).
OffersSinceDrain == SubSeq(offered, drainedAt + 1, Len(offered))

\* The scores retained in h are the min(k, n) best of the n candidates cands.
RetainsBestOf(p, k, h, cands) ==
    SortBest(p, RetainedScores(h)) =
        BestScores(p, Min(k, Len(cands)), Scores(cands))

\* C13 as stated: in every reachable state the retained scores are the
\* min(K, n) best scores among all n candidates ever offered.
C13_BestOfAllOffered ==
    RetainsBestOf(policy, k_, selected_, ReturnedOffers(k_, offered))

\* C13 amended: in every reachable state the retained scores are the
\* min(K, n) best scores among the n candidates offered since the last
\* destructive extraction (since construction if there was none).
C13_BestSinceDrain ==
    RetainsBestOf(policy, k_, selected_, ReturnedOffers(k_, OffersSinceDrain))

\* After a drain more than K >= 2 candidates were offered, and a candidate
\* offered before the drain is strictly better than the worst retained one.
C13_Witness ==
    /\ k_ >= 2
    /\ drainedAt > 0
    /\ Len(ReturnedOffers(k_, OffersSinceDrain)) > k_
    /\ Len(selected_) = k_
    /\ \E i \in 1..drainedAt :
           /\ ~scorerThrows(offered[i])
           /\ StrictlyBetter(policy, scorer_(offered[i]),
                             WorstScore(policy, RetainedScores(selected_)))

\* ------------------------------------------------------------------- C14
\* C14: with K > 0 a results call with the third argument true leaves the
\* selector empty; of the offers that follow, each one made while fewer than
\* K have been made since the drain returns true, whatever was offered
\* before; and a later results call writes only candidates offered since
\* the drain, min(K, their number) of them.
C14_DrainRestartsAccumulation ==
    [][k_ > 0 =>
          /\ (last'.kind = "results" /\ last'.preserveSelection /\ offered' = offered) =>
                 selected_' = <<>>
          /\ (/\ Len(offered') = Len(offered) + 1
              /\ ~last'.threw
              /\ Len(ReturnedOffers(k_, OffersSinceDrain)) < k_) =>
                 last'.ret
          /\ (last'.kind = "results" /\ offered' = offered) =>
                 /\ SubMultiset(last'.out, ReturnedOffers(k_, OffersSinceDrain))
                 /\ last'.count = Min(k_, Len(ReturnedOffers(k_, OffersSinceDrain)))]_vars

\* A selector of K >= 2 was full when drained, and then accepted a candidate
\* strictly worse than every candidate offered before the drain.
C14_Witness ==
    /\ k_ >= 2
    /\ drainedAt >= k_
    /\ acceptedAtDrain >= k_
    /\ Len(offered) > drainedAt
    /\ last.kind = "offer"
    /\ last.ret
    /\ \A i \in 1..drainedAt :
           /\ ~scorerThrows(offered[i])
           /\ StrictlyBetter(policy, scorer_(offered[i]), scorer_(last.candidate))

\* ------------------------------------------------------------------- C15
SameMultiset(a, b) ==
    /\ Len(a) = Len(b)
    /\ \A i \in 1..Len(a) : Occurrences(a, a[i]) = Occurrences(b, a[i])

RemoveAt(s, i) == SubSeq(s, 1, i - 1) \o SubSeq(s, i + 1, Len(s))

\* The entry offer makes of a candidate.
Scored(c) == [first |-> c, second |-> scorer_(c)]

\* C15: when a selector holding K entries accepts an offer, one retained
\* entry of the worst retained score is removed, the offered candidate is
\* added with its score, the other K - 1 entries stay, and K are retained.
C15_AcceptReplacesWorst ==
    [][(Len(offered') = Len(offered) + 1 /\ Len(selected_) = k_ /\ last'.ret) =>
          /\ Len(selected_') = k_
          /\ \E i \in 1..Len(selected_) :
                 /\ selected_[i].second = WorstScore(policy, RetainedScores(selected_))
                 /\ SameMultiset(selected_',
                                 Append(RemoveAt(selected_, i), Scored(last'.candidate)))]_vars

\* A never-drained selector of K >= 2 accepted an offer after K earlier
\* acceptances, so the offer evicted an entry.
C15_Witness ==
    /\ k_ >= 2
    /\ drainedAt = 0
    /\ last.kind = "offer"
    /\ last.ret
    /\ accepted > k_
    /\ Len(selected_) = k_

\* ------------------------------------------------------------------- C16
\* The sequence s read from its end.
Backwards(s) == [i \in 1..Len(s) |-> s[Len(s) + 1 - i]]

\* C16: results with sorted = false writes the same candidates as results
\* with sorted = true would on that state, worst first: its scores are the
\* sorted call's scores read backwards.
C16_UnsortedIsReverse ==
    [][(last'.kind = "results" /\ ~last'.sorted /\ offered' = offered) =>
          /\ SameMultiset(last'.out, ResultsStep(policy, selected_, TRUE, FALSE).out)
          /\ last'.count = ResultsStep(policy, selected_, TRUE, FALSE).count
          /\ Scores(last'.out) =
                 Backwards(Scores(ResultsStep(policy, selected_, TRUE, FALSE).out))
          /\ BestFirst(policy, Backwards(Scores(last'.out)))]_vars

\* An unsorted results call wrote three candidates of different scores.
C16_Witness ==
    /\ last.kind = "results"
    /\ ~last.sorted
    /\ ~last.preserveSelection
    /\ Len(last.out) = 3
    /\ scorer_(last.out[1]) # scorer_(last.out[3])

\* ------------------------------------------------------------------- C17
\* C17: an offer to a selector holding K entries leaves K entries whose
\* worst score is at least as good as before (for Top the minimum does not
\* decrease, for Bottom the maximum does not increase); a score that a full
\* selector has rejected since the last drain is rejected again.
C17_WorstNeverWorsens ==
    [][(Len(offered') = Len(offered) + 1 /\ k_ > 0 /\ Len(selected_) = k_) =>
          /\ Len(selected_') = k_
          /\ AtLeastAsGood(policy,
                           WorstScore(policy, RetainedScores(selected_')),
                           WorstScore(policy, RetainedScores(selected_)))
          /\ (/\ ~last'.threw
              /\ \E i \in 1..Len(rejected) : rejected[i] = scorer_(last'.candidate)) =>
                 ~last'.ret]_vars

\* A never-drained selector rejected the same score twice in a row of its
\* rejections, the second time while retaining a strictly better candidate
\* that was offered after that score was first offered.
C17_Witness ==
    /\ k_ >= 1
    /\ drainedAt = 0
    /\ accepted > k_
    /\ last.kind = "offer"
    /\ ~last.ret
    /\ ~last.threw
    /\ Len(rejected) >= 2
    /\ rejected[Len(rejected)] = scorer_(last.candidate)
    /\ rejected[Len(rejected) - 1] = scorer_(last.candidate)
    /\ \E i \in 1..(Len(offered) - 1) :
           /\ scorer_(offered[i]) = scorer_(last.candidate)
           /\ \E j \in (i + 1)..(Len(offered) - 1) :
                  /\ ~scorerThrows(offered[j])
                  /\ StrictlyBetter(policy, scorer_(offered[j]), scorer_(last.candidate))
                  /\ \E m \in 1..Len(selected_) : selected_[m].first = offered[j]

\* ------------------------------------------------------------------- C18
\* C18: the scorer is called once in every offer when K > 0 and never when
\* K = 0 (nor by results): an offer on a K = 0 selector returns false
\* without throwing, also for a candidate on which the scorer would throw.
C18_ScorerCalledOncePerOffer ==
    /\ scorerCalls = (IF k_ > 0 THEN Len(offered) ELSE 0)
    /\ (k_ = 0 /\ last.kind = "offer") => (~last.ret /\ ~last.threw)

\* A K = 0 selector was offered the candidate on which the scorer throws.
C18_Witness ==
    /\ k_ = 0
    /\ last.kind = "offer"
    /\ scorerThrows(last.candidate)
    /\ ~last.threw
    /\ ~last.ret
    /\ scorerCalls = 0

====
